---- MODULE Spec2Model ----
(***************************************************************************)
(* Model of the console task tracker (Phase-01, "Advance Features"):       *)
(* TaskStorage (storage.py), the validators, FilterState and TaskService   *)
(* (services.py), the recurrence date arithmetic (models.py) and the menu  *)
(* loop of the console interface (cli.py).                                 *)
(*                                                                         *)
(* Conventions                                                             *)
(*   - a Python str is a sequence of one-character strings;                *)
(*   - Optional[T] is a sequence of length <= 1: None is <<>>, a value v   *)
(*     is <<v>>;                                                           *)
(*   - a call that may raise yields [exc, val]: exc = "none" on return.    *)
(***************************************************************************)
EXTENDS Integers, Sequences, FiniteSets, TLC

VARIABLES tasks, next_id, issued, filters, cli, clock, calls, result, calc

storageVars == <<tasks, next_id, issued>>
\* the operation of the last call comes first, so that two states are told
\* apart by it before the results of different operations are compared
vars == <<result.op, tasks, next_id, issued, filters, cli, clock, calls, result, calc>>

-----------------------------------------------------------------------------
(* Bounds of the model *)

\* number of service calls in one run of Spec
MaxCalls == 3
\* number of service calls in one run of InputSpec
MaxInputCalls == 2
\* last year of the due dates fed to calculate_next_due_date
MaxYear == 2025
\* number of tasks added in one run of QuerySpec
MaxQueryTasks == 3
\* number of tasks added in one run of FilterSpec
MaxFilterTasks == 2
\* number of menu choices in one run of CliSpec
MaxCliCalls == 3

-----------------------------------------------------------------------------
(* Optional values and raising calls *)

None == <<>>
Some(v) == <<v>>
IsNone(o) == o = <<>>
Get(o) == o[1]

Ok(v) == [exc |-> "none", val |-> <<v>>]
Raise(e) == [exc |-> e, val |-> <<>>]

-----------------------------------------------------------------------------
(* Python strings *)

Rep(c, n) == [i \in 1..n |-> c]

\* str.isspace for the characters of the alphabet used here
IsSpace(c) == c \in {" ", "\t", "\n"}

RECURSIVE lstrip(_)
lstrip(s) ==
    IF s = <<>> THEN <<>>
    ELSE IF IsSpace(Head(s)) THEN lstrip(Tail(s)) ELSE s

RECURSIVE rstrip(_)
rstrip(s) ==
    IF s = <<>> THEN <<>>
    ELSE IF IsSpace(s[Len(s)]) THEN rstrip(SubSeq(s, 1, Len(s) - 1)) ELSE s

\* str.strip()
strip(s) == rstrip(lstrip(s))

UpperChars == <<"A","B","C","D","E","F","G","H","I","J","K","L","M",
                "N","O","P","Q","R","S","T","U","V","W","X","Y","Z">>
LowerChars == <<"a","b","c","d","e","f","g","h","i","j","k","l","m",
                "n","o","p","q","r","s","t","u","v","w","x","y","z">>

casefoldChar(c) ==
    IF \E i \in 1..Len(UpperChars) : UpperChars[i] = c
    THEN LowerChars[CHOOSE i \in 1..Len(UpperChars) : UpperChars[i] = c]
    ELSE c

\* str.casefold() (ASCII)
casefold(s) == [i \in 1..Len(s) |-> casefoldChar(s[i])]

-----------------------------------------------------------------------------
(* models.py: enumerations *)

\* Priority: the members in definition order, each named by its value
PriorityValues == << <<"h","i","g","h">>, <<"m","e","d","i","u","m">>, <<"l","o","w">> >>
PriorityNames  == <<"HIGH", "MEDIUM", "LOW">>
Priority == {PriorityNames[i] : i \in 1..Len(PriorityNames)}

\* Recurrence: the members in definition order
RecurrenceValues == << <<"n","o","n","e">>, <<"d","a","i","l","y">>,
                       <<"w","e","e","k","l","y">>, <<"m","o","n","t","h","l","y">> >>
RecurrenceNames  == <<"NONE", "DAILY", "WEEKLY", "MONTHLY">>
Recurrence == {RecurrenceNames[i] : i \in 1..Len(RecurrenceNames)}

-----------------------------------------------------------------------------
(* services.py: validators *)

TITLE_MAX == 100
DESCRIPTION_MAX == 500
CATEGORY_MAX == 50

\* a faulty validate_title: the title is checked trimmed but returned as typed
validate_title_untrimmed(title) ==
    IF strip(title) = <<>> THEN Raise("ValidationError")
    ELSE IF Len(strip(title)) > TITLE_MAX THEN Raise("ValidationError")
    ELSE Ok(title)

validate_title(title) ==
    LET cleaned == strip(title) IN
    IF cleaned = <<>> THEN Raise("ValidationError")
    ELSE IF Len(cleaned) > TITLE_MAX THEN Raise("ValidationError")
    ELSE Ok(cleaned)

validate_description(description) ==
    LET cleaned == strip(description) IN
    IF Len(cleaned) > DESCRIPTION_MAX THEN Raise("ValidationError")
    ELSE Ok(cleaned)

validate_priority(priority_str) ==
    LET cleaned == casefold(strip(priority_str)) IN
    IF \E i \in 1..Len(PriorityValues) : PriorityValues[i] = cleaned
    THEN Ok(PriorityNames[CHOOSE i \in 1..Len(PriorityValues) : PriorityValues[i] = cleaned])
    ELSE Raise("ValidationError")

\* a faulty validate_category: an empty category is kept as the empty string
validate_category_keeps_empty(category_str) ==
    LET cleaned == strip(category_str) IN
    IF Len(cleaned) > CATEGORY_MAX THEN Raise("ValidationError")
    ELSE Ok(Some(cleaned))

\* a faulty validate_category: a category of CATEGORY_MAX characters is refused
validate_category_limit_exclusive(category_str) ==
    LET cleaned == strip(category_str) IN
    IF cleaned = <<>> THEN Ok(None)
    ELSE IF Len(cleaned) >= CATEGORY_MAX THEN Raise("ValidationError")
    ELSE Ok(Some(cleaned))

\* returns Optional[str]
validate_category(category_str) ==
    LET cleaned == strip(category_str) IN
    IF cleaned = <<>> THEN Ok(None)
    ELSE IF Len(cleaned) > CATEGORY_MAX THEN Raise("ValidationError")
    ELSE Ok(Some(cleaned))

validate_recurrence(recurrence_str) ==
    LET cleaned == casefold(strip(recurrence_str)) IN
    IF \E i \in 1..Len(RecurrenceValues) : RecurrenceValues[i] = cleaned
    THEN Ok(RecurrenceNames[CHOOSE i \in 1..Len(RecurrenceValues) : RecurrenceValues[i] = cleaned])
    ELSE Raise("ValueError")

-----------------------------------------------------------------------------
(* datetime (the part of the library the program uses): calendar dates     *)
(* [year, month, day]; every due date is a datetime at midnight            *)

IsLeap(y) == (y % 4 = 0) /\ ((y % 100 # 0) \/ (y % 400 = 0))

DaysInMonth(y, m) ==
    IF m = 2 THEN (IF IsLeap(y) THEN 29 ELSE 28)
    ELSE IF m \in {4, 6, 9, 11} THEN 30 ELSE 31

\* datetime(year, month, day): ValueError for a date that does not exist
\* (the years of a datetime are 1..9999)
datetime(y, m, d) ==
    IF /\ 1 <= y /\ y <= 9999
       /\ 1 <= m /\ m <= 12
       /\ 1 <= d /\ d <= DaysInMonth(y, m)
    THEN Ok([year |-> y, month |-> m, day |-> d])
    ELSE Raise("ValueError")

DaysBeforeYear(y) == (y - 1) * 365 + ((y - 1) \div 4) - ((y - 1) \div 100) + ((y - 1) \div 400)

RECURSIVE DaysBeforeMonth(_, _)
DaysBeforeMonth(y, m) ==
    IF m <= 1 THEN 0 ELSE DaysBeforeMonth(y, m - 1) + DaysInMonth(y, m - 1)

\* date.toordinal(): 0001-01-01 is day 1
toordinal(dt) == DaysBeforeYear(dt.year) + DaysBeforeMonth(dt.year, dt.month) + dt.day

\* date.fromordinal()
fromordinal(n) ==
    LET y == CHOOSE yy \in (n \div 366)..((n \div 365) + 1) :
                 DaysBeforeYear(yy) < n /\ n <= DaysBeforeYear(yy + 1)
        r == n - DaysBeforeYear(y)
        m == CHOOSE mm \in 1..12 :
                 DaysBeforeMonth(y, mm) < r /\ r <= DaysBeforeMonth(y, mm) + DaysInMonth(y, mm)
    IN [year |-> y, month |-> m, day |-> r - DaysBeforeMonth(y, m)]

\* datetime + timedelta(days=k): OverflowError outside the years 1..9999
AddDays(dt, k) ==
    LET n == toordinal(dt) + k IN
    IF n < 1 \/ n > DaysBeforeYear(10000) THEN Raise("OverflowError")
    ELSE Ok(fromordinal(n))

Min(a, b) == IF a <= b THEN a ELSE b

-----------------------------------------------------------------------------
(* models.py: calculate_next_due_date *)

\* a faulty calculate_next_due_date: the day number is advanced in place,
\* without carrying into the month
calculate_next_due_date_no_carry(current_date, recurrence) ==
    IF recurrence = "DAILY"
    THEN datetime(current_date.year, current_date.month, current_date.day + 1)
    ELSE IF recurrence = "WEEKLY"
    THEN datetime(current_date.year, current_date.month, current_date.day + 7)
    ELSE Raise("ValueError")

calculate_next_due_date(current_date, recurrence) ==
    IF recurrence = "NONE" THEN Raise("ValueError")
    ELSE IF recurrence = "DAILY" THEN AddDays(current_date, 1)
    ELSE IF recurrence = "WEEKLY" THEN AddDays(current_date, 7)
    ELSE IF recurrence = "MONTHLY" THEN
        LET month0 == current_date.month + 1
            month == IF month0 > 12 THEN 1 ELSE month0
            year == IF month0 > 12 THEN current_date.year + 1 ELSE current_date.year
            day == current_date.day
            first_of_following == datetime(year, month + 1, 1)
        IN IF first_of_following.exc # "none" THEN first_of_following
           ELSE LET before == AddDays(Get(first_of_following.val), -1) IN
                IF before.exc # "none" THEN before
                ELSE datetime(year, month, Min(day, Get(before.val).day))
    ELSE Raise("ValueError")

-----------------------------------------------------------------------------
(* int(): parsing of a decimal literal, as validate_due_date uses it *)

DigitChars == <<"0","1","2","3","4","5","6","7","8","9">>
IsDigit(c) == \E i \in 1..Len(DigitChars) : DigitChars[i] = c
DigitValue(c) == (CHOOSE i \in 1..Len(DigitChars) : DigitChars[i] = c) - 1

RECURSIVE DigitsValue(_, _)
DigitsValue(s, acc) ==
    IF s = <<>> THEN acc
    ELSE IF Head(s) = "_" THEN DigitsValue(Tail(s), acc)
    ELSE DigitsValue(Tail(s), acc * 10 + DigitValue(Head(s)))

\* digits, with single underscores allowed between digits
IsDigitBody(s) ==
    /\ s # <<>>
    /\ IsDigit(s[1]) /\ IsDigit(s[Len(s)])
    /\ \A i \in 1..Len(s) : IsDigit(s[i]) \/ s[i] = "_"
    /\ \A i \in 1..(Len(s) - 1) : ~(s[i] = "_" /\ s[i + 1] = "_")

int(s) ==
    LET t == strip(s)
        signed == t # <<>> /\ t[1] \in {"+", "-"}
        body == IF signed THEN Tail(t) ELSE t
    IN IF ~IsDigitBody(body) THEN Raise("ValueError")
       ELSE IF signed /\ t[1] = "-" THEN Ok(0 - DigitsValue(body, 0))
       ELSE Ok(DigitsValue(body, 0))

-----------------------------------------------------------------------------
(* services.py: validate_due_date; returns Optional[datetime] *)

validate_due_date(date_str) ==
    LET cleaned == strip(date_str) IN
    IF cleaned = <<>> THEN Ok(None)
    ELSE IF Len(cleaned) # 10 \/ cleaned[5] # "-" \/ cleaned[8] # "-" THEN Raise("ValueError")
    ELSE LET year == int(SubSeq(cleaned, 1, 4))
             month == int(SubSeq(cleaned, 6, 7))
             day == int(SubSeq(cleaned, 9, 10))
         IN IF year.exc # "none" \/ month.exc # "none" \/ day.exc # "none"
            THEN Raise("ValueError")
            ELSE IF Get(month.val) < 1 \/ Get(month.val) > 12 THEN Raise("ValueError")
            ELSE IF Get(day.val) < 1 \/ Get(day.val) > 31 THEN Raise("ValueError")
            ELSE LET due_date == datetime(Get(year.val), Get(month.val), Get(day.val)) IN
                 IF due_date.exc # "none" THEN Raise("ValueError")
                 ELSE Ok(Some(Get(due_date.val)))

-----------------------------------------------------------------------------
(* storage.py: TaskStorage.  A storage is [tasks, next_id, issued]; issued *)
(* is the history of the ids _generate_id has handed out.                  *)

\* index of the first stored task with this id, 0 when there is none
IndexOf(ts, task_id) ==
    IF \E i \in 1..Len(ts) : ts[i].id = task_id
    THEN CHOOSE i \in 1..Len(ts) :
             ts[i].id = task_id /\ \A j \in 1..(i - 1) : ts[j].id # task_id
    ELSE 0

NewStorage == [tasks |-> <<>>, next_id |-> 1, issued |-> <<>>]

\* a faulty _generate_id: the id derived from the number of stored tasks
generate_id_from_count(st) == Len(st.tasks) + 1

\* _generate_id: the id handed out
generate_id(st) == st.next_id

\* a faulty TaskStorage.add: the placeholder id of the task is kept
storage_add_keeps_placeholder(st, task) ==
    [tasks |-> Append(st.tasks, task),
     next_id |-> st.next_id + 1,
     issued |-> Append(st.issued, generate_id(st))]

\* a faulty TaskStorage.add: the task is put at the head of the list
storage_add_prepends(st, task) ==
    LET current_id == generate_id(st) IN
    [tasks |-> <<[task EXCEPT !.id = current_id]>> \o st.tasks,
     next_id |-> st.next_id + 1,
     issued |-> Append(st.issued, current_id)]

\* TaskStorage.add (with _generate_id's increment)
storage_add(st, task) ==
    LET current_id == generate_id(st) IN
    [tasks |-> Append(st.tasks, [task EXCEPT !.id = current_id]),
     next_id |-> st.next_id + 1,
     issued |-> Append(st.issued, current_id)]

\* TaskStorage.get_by_id: Optional[Task]
get_by_id(ts, task_id) ==
    LET i == IndexOf(ts, task_id) IN IF i = 0 THEN None ELSE Some(ts[i])

\* TaskStorage.update: the task list afterwards
storage_update(ts, task) ==
    LET i == IndexOf(ts, task.id) IN IF i = 0 THEN ts ELSE [ts EXCEPT ![i] = task]

\* a faulty TaskStorage.delete: the first task is removed when the id is stored
storage_delete_first(ts, task_id) ==
    IF IndexOf(ts, task_id) = 0 THEN ts ELSE Tail(ts)

\* a faulty TaskStorage.delete: the task and every task after it are removed
storage_delete_from(ts, task_id) ==
    LET i == IndexOf(ts, task_id) IN
    IF i = 0 THEN ts ELSE SubSeq(ts, 1, i - 1)

\* TaskStorage.delete: the task list afterwards
storage_delete(ts, task_id) ==
    LET i == IndexOf(ts, task_id) IN
    IF i = 0 THEN ts ELSE SubSeq(ts, 1, i - 1) \o SubSeq(ts, i + 1, Len(ts))

-----------------------------------------------------------------------------
(* services.py: TaskService.  Each operation yields [st, exc, ret]: the     *)
(* storage afterwards, the exception raised ("none" on return) and the      *)
(* value returned (tasks are returned by reference: ret holds their ids).   *)

\* the names bound in the namespace of services.py (its imports and its
\* definitions): a call of any other global name raises NameError
ServiceGlobals ==
    {"dataclass", "datetime", "Optional", "List",
     "Task", "Priority", "Recurrence", "ensure_task_compatibility",
     "format_due_date", "is_overdue", "TaskStorage",
     "ValidationError", "validate_title", "validate_description",
     "validate_priority", "validate_category", "validate_due_date",
     "validate_recurrence", "FilterState", "TaskService"}

\* every Task is built by the dataclass constructor, so no attribute is missing
ensure_task_compatibility(task) == task

Returned(st, r) == [st |-> st, exc |-> "none", ret |-> r]
Raised(st, e) == [st |-> st, exc |-> e, ret |-> <<>>]

\* a faulty add_task: the id is reserved before the arguments are validated
add_task_reserves_id(st, a, now) ==
    LET reserved == [st EXCEPT !.next_id = st.next_id + 1,
                               !.issued = Append(st.issued, st.next_id)]
        checks == <<validate_title(a.title), validate_description(a.description),
                    validate_priority(a.priority_str), validate_category(a.category_str),
                    validate_due_date(a.due_date_str), validate_recurrence(a.recurrence_str)>>
    IN IF \E k \in 1..Len(checks) : checks[k].exc # "none"
       THEN Raised(reserved,
                   checks[CHOOSE k \in 1..Len(checks) :
                              checks[k].exc # "none"
                              /\ \A j \in 1..(k - 1) : checks[j].exc = "none"].exc)
       ELSE Returned([reserved EXCEPT !.tasks =
                         Append(st.tasks,
                                [id |-> st.next_id,
                                 title |-> Get(checks[1].val),
                                 description |-> Get(checks[2].val),
                                 is_completed |-> FALSE,
                                 created_at |-> now,
                                 priority |-> Get(checks[3].val),
                                 category |-> Get(checks[4].val),
                                 due_date |-> Get(checks[5].val),
                                 recurrence |-> Get(checks[6].val),
                                 parent_task_id |-> None])],
                     Some(st.next_id))

add_task(st, a, now) ==
    LET clean_title == validate_title(a.title)
        clean_description == validate_description(a.description)
        clean_priority == validate_priority(a.priority_str)
        clean_category == validate_category(a.category_str)
        clean_due_date == validate_due_date(a.due_date_str)
        clean_recurrence == validate_recurrence(a.recurrence_str)
    IN IF clean_title.exc # "none" THEN Raised(st, clean_title.exc)
       ELSE IF clean_description.exc # "none" THEN Raised(st, clean_description.exc)
       ELSE IF clean_priority.exc # "none" THEN Raised(st, clean_priority.exc)
       ELSE IF clean_category.exc # "none" THEN Raised(st, clean_category.exc)
       ELSE IF clean_due_date.exc # "none" THEN Raised(st, clean_due_date.exc)
       ELSE IF clean_recurrence.exc # "none" THEN Raised(st, clean_recurrence.exc)
       ELSE LET task == [id |-> 0,
                         title |-> Get(clean_title.val),
                         description |-> Get(clean_description.val),
                         is_completed |-> FALSE,
                         created_at |-> now,
                         priority |-> Get(clean_priority.val),
                         category |-> Get(clean_category.val),
                         due_date |-> Get(clean_due_date.val),
                         recurrence |-> Get(clean_recurrence.val),
                         parent_task_id |-> None]
                st2 == storage_add(st, task)
            IN Returned(st2, Some(st2.tasks[Len(st2.tasks)].id))

\* get_task: Optional[Task]
get_task(st, task_id) ==
    LET task == get_by_id(st.tasks, task_id) IN
    IF task = None THEN None ELSE Some(ensure_task_compatibility(Get(task)))

\* update_task assigns each validated field to the stored object as soon as
\* it is validated.  A stage [task, exc] is the object and the exception
\* raised so far; each operator below is one "if <field> is not None" block.
update_title(s, title) ==
    IF s.exc # "none" \/ title = None THEN s
    ELSE LET v == validate_title(Get(title)) IN
         IF v.exc # "none" THEN [s EXCEPT !.exc = v.exc]
         ELSE [s EXCEPT !.task.title = Get(v.val)]

update_description(s, description) ==
    IF s.exc # "none" \/ description = None THEN s
    ELSE LET v == validate_description(Get(description)) IN
         IF v.exc # "none" THEN [s EXCEPT !.exc = v.exc]
         ELSE [s EXCEPT !.task.description = Get(v.val)]

update_priority(s, priority_str) ==
    IF s.exc # "none" \/ priority_str = None THEN s
    ELSE LET v == validate_priority(Get(priority_str)) IN
         IF v.exc # "none" THEN [s EXCEPT !.exc = v.exc]
         ELSE [s EXCEPT !.task.priority = Get(v.val)]

update_category(s, category_str) ==
    IF s.exc # "none" \/ category_str = None THEN s
    ELSE LET v == validate_category(Get(category_str)) IN
         IF v.exc # "none" THEN [s EXCEPT !.exc = v.exc]
         ELSE [s EXCEPT !.task.category = Get(v.val)]

\* a faulty due-date block: "if due_date_str:" instead of "is not None"
update_due_date_truthy(s, due_date_str) ==
    IF s.exc # "none" \/ due_date_str = None \/ Get(due_date_str) = <<>> THEN s
    ELSE LET v == validate_due_date(Get(due_date_str)) IN
         IF v.exc # "none" THEN [s EXCEPT !.exc = v.exc]
         ELSE [s EXCEPT !.task.due_date = Get(v.val)]

update_due_date(s, due_date_str) ==
    IF s.exc # "none" \/ due_date_str = None THEN s
    ELSE IF strip(Get(due_date_str)) = <<>> THEN [s EXCEPT !.task.due_date = None]
    ELSE LET v == validate_due_date(Get(due_date_str)) IN
         IF v.exc # "none" THEN [s EXCEPT !.exc = v.exc]
         ELSE [s EXCEPT !.task.due_date = Get(v.val)]

update_recurrence(s, recurrence_str) ==
    IF s.exc # "none" \/ recurrence_str = None THEN s
    ELSE LET v == validate_recurrence(Get(recurrence_str)) IN
         IF v.exc # "none" THEN [s EXCEPT !.exc = v.exc]
         ELSE [s EXCEPT !.task.recurrence = Get(v.val)]

\* the six blocks in the order of the code
update_fields(task, a) ==
    update_recurrence(
      update_due_date(
        update_category(
          update_priority(
            update_description(
              update_title([task |-> task, exc |-> "none"], a.title),
              a.description),
            a.priority_str),
          a.category_str),
        a.due_date_str),
      a.recurrence_str)

\* the end of update_task at index i: the object mutated is the one the
\* storage holds, so its fields stay assigned when a later block raises
update_finish(st, i, s) ==
    IF s.exc # "none" THEN Raised([st EXCEPT !.tasks[i] = s.task], s.exc)
    ELSE Returned([st EXCEPT !.tasks = storage_update([st.tasks EXCEPT ![i] = s.task], s.task)],
                  Some(s.task.id))

\* a faulty update_task: the arguments are validated before the task is looked up
update_task_validates_first(st, task_id, a) ==
    LET blank == [id |-> 0, title |-> <<>>, description |-> <<>>, is_completed |-> FALSE,
                  created_at |-> 0, priority |-> "MEDIUM", category |-> None,
                  due_date |-> None, recurrence |-> "NONE", parent_task_id |-> None]
    IN IF IndexOf(st.tasks, task_id) = 0
       THEN IF update_fields(blank, a).exc # "none"
            THEN Raised(st, update_fields(blank, a).exc)
            ELSE Returned(st, None)
       ELSE update_finish(st, IndexOf(st.tasks, task_id),
                          update_fields(ensure_task_compatibility(
                                            st.tasks[IndexOf(st.tasks, task_id)]), a))

update_task(st, task_id, a) ==
    IF IndexOf(st.tasks, task_id) = 0 THEN Returned(st, None)
    ELSE update_finish(st, IndexOf(st.tasks, task_id),
                       update_fields(ensure_task_compatibility(
                                         st.tasks[IndexOf(st.tasks, task_id)]), a))

\* a faulty delete_task: an id that is not stored removes the newest task
delete_task_pops_last(st, task_id) ==
    IF IndexOf(st.tasks, task_id) = 0
    THEN Returned([st EXCEPT !.tasks = SubSeq(st.tasks, 1, Len(st.tasks) - 1)], FALSE)
    ELSE Returned([st EXCEPT !.tasks = storage_delete(st.tasks, task_id)], TRUE)

\* delete_task: ret is the boolean storage.delete returns
delete_task(st, task_id) ==
    Returned([st EXCEPT !.tasks = storage_delete(st.tasks, task_id)],
             IndexOf(st.tasks, task_id) # 0)

\* a faulty toggle_task: the toggled task is stamped with the time of the toggle
toggle_task_restamps(st, task_id, now) ==
    LET i == IndexOf(st.tasks, task_id) IN
    IF i = 0 THEN Returned(st, <<None, None>>)
    ELSE IF /\ ~st.tasks[i].is_completed /\ st.tasks[i].recurrence # "NONE"
            /\ st.tasks[i].due_date # None
         THEN Raised(st, "NameError")
    ELSE Returned([st EXCEPT !.tasks[i].is_completed = ~st.tasks[i].is_completed,
                             !.tasks[i].created_at = now],
                  <<Some(task_id), None>>)

\* a faulty toggle_task: the flag is flipped before the successor is computed
toggle_task_flips_first(st, task_id, now) ==
    LET i == IndexOf(st.tasks, task_id) IN
    IF i = 0 THEN Returned(st, <<None, None>>)
    ELSE LET task == st.tasks[i]
             flipped == [st EXCEPT !.tasks[i].is_completed = ~task.is_completed]
         IN IF ~task.is_completed /\ task.recurrence # "NONE" /\ task.due_date # None
            THEN Raised(flipped, "NameError")
            ELSE Returned(flipped, <<Some(task.id), None>>)

\* toggle_task: ret is <<original, successor>>, each Optional
toggle_task(st, task_id, now) ==
    LET i == IndexOf(st.tasks, task_id) IN
    IF i = 0 THEN Returned(st, <<None, None>>)
    ELSE
    LET task == ensure_task_compatibility(st.tasks[i])
        is_completing == ~task.is_completed
        flip(s) == LET flipped == [s.tasks[i] EXCEPT !.is_completed = ~task.is_completed]
                   IN [s EXCEPT !.tasks = storage_update([s.tasks EXCEPT ![i] = flipped], flipped)]
    IN IF is_completing /\ task.recurrence # "NONE" /\ task.due_date # None
       THEN IF "calculate_next_due_date" \notin ServiceGlobals
            THEN Raised(st, "NameError")
            ELSE LET next_due_date == calculate_next_due_date(Get(task.due_date), task.recurrence) IN
                 IF next_due_date.exc # "none" THEN Raised(st, next_due_date.exc)
                 ELSE LET next_task == [id |-> 0,
                                        title |-> task.title,
                                        description |-> task.description,
                                        is_completed |-> FALSE,
                                        created_at |-> now,
                                        priority |-> task.priority,
                                        category |-> task.category,
                                        due_date |-> Some(Get(next_due_date.val)),
                                        recurrence |-> task.recurrence,
                                        parent_task_id |-> Some(task.id)]
                          st2 == storage_add(st, next_task)
                      IN Returned(flip(st2),
                                  <<Some(task.id), Some(st2.tasks[Len(st2.tasks)].id)>>)
       ELSE Returned(flip(st), <<Some(task.id), None>>)

-----------------------------------------------------------------------------
(* FilterState and the queries of TaskService *)

\* FilterState(): the three dimensions, each Optional
NewFilterState == [status |-> None, priority |-> None, category |-> None]

is_active(f) == f.status # None \/ f.priority # None \/ f.category # None

clear(f) == [f EXCEPT !.status = None, !.priority = None, !.category = None]

\* a faulty set_filter_status: the other two dimensions are reset
set_filter_status_resets_others(f, status) ==
    LET status_lower == casefold(strip(status)) IN
    IF status_lower = <<"a","l","l">> THEN clear(f)
    ELSE IF status_lower = <<"p","e","n","d","i","n","g">>
         THEN [clear(f) EXCEPT !.status = Some(FALSE)]
    ELSE IF status_lower = <<"c","o","m","p","l","e","t","e","d">>
         THEN [clear(f) EXCEPT !.status = Some(TRUE)]
    ELSE f

set_filter_status(f, status) ==
    LET status_lower == casefold(strip(status)) IN
    IF status_lower = <<"a","l","l">> THEN [f EXCEPT !.status = None]
    ELSE IF status_lower = <<"p","e","n","d","i","n","g">> THEN [f EXCEPT !.status = Some(FALSE)]
    ELSE IF status_lower = <<"c","o","m","p","l","e","t","e","d">> THEN [f EXCEPT !.status = Some(TRUE)]
    ELSE f

\* priority: Optional[Priority]; the interface passes None to clear
set_filter_priority(f, priority) == [f EXCEPT !.priority = priority]

set_filter_category(f, category) ==
    LET cleaned == strip(category) IN
    [f EXCEPT !.category = IF cleaned # <<>> THEN Some(cleaned) ELSE None]

clear_filters(f) == clear(f)

\* Python's "needle in haystack" on str
Contains(needle, haystack) ==
    \E i \in 0..(Len(haystack) - Len(needle)) :
        SubSeq(haystack, i + 1, i + Len(needle)) = needle

\* ord(c), for the characters the inputs are made of
ord(c) ==
    IF c = "\t" THEN 9 ELSE IF c = "\n" THEN 10 ELSE IF c = " " THEN 32
    ELSE IF c = "-" THEN 45 ELSE IF c = "/" THEN 47
    ELSE IF IsDigit(c) THEN 48 + DigitValue(c)
    ELSE IF \E i \in 1..Len(UpperChars) : UpperChars[i] = c
         THEN 64 + (CHOOSE i \in 1..Len(UpperChars) : UpperChars[i] = c)
    ELSE 96 + (CHOOSE i \in 1..Len(LowerChars) : LowerChars[i] = c)

\* str as the sequence of its code points, the order str comparison uses
CodePoints(s) == [i \in 1..Len(s) |-> ord(s[i])]

\* x < y on sequences of integers, as Python compares sequences
SeqLess(x, y) ==
    \E k \in 1..Len(y) :
        /\ k - 1 <= Len(x)
        /\ \A j \in 1..(k - 1) : x[j] = y[j]
        /\ (k > Len(x) \/ x[k] < y[k])

\* a < b on keys (primary, created_at), primary a sequence of integers
KeyLess(a, b) == SeqLess(a[1], b[1]) \/ (a[1] = b[1] /\ a[2] < b[2])

\* sorted(ts, key=..., reverse=...): stable, and stable under reverse;
\* keys[i] is the key of ts[i]
sorted(ts, keys, reverse) ==
    LET n == Len(ts)
        Before(j, i) == \/ IF reverse THEN KeyLess(keys[i], keys[j])
                                      ELSE KeyLess(keys[j], keys[i])
                        \/ (keys[j] = keys[i] /\ j < i)
        pos(i) == 1 + Cardinality({j \in 1..n : Before(j, i)})
    IN [p \in 1..n |-> ts[CHOOSE i \in 1..n : pos(i) = p]]

\* TaskStorage.get_all: a copy of the list, in insertion order
get_all(ts) == ts

\* get_all_tasks: the stored list, sorted by id
get_all_tasks(st) ==
    LET all == get_all(st.tasks) IN
    sorted(all, [i \in 1..Len(all) |-> << <<all[i].id>>, 0 >>], FALSE)

\* a faulty search_tasks: the category is searched as well
search_tasks_with_category(st, keyword) ==
    LET cleaned == strip(keyword)
        keyword_lower == casefold(cleaned)
        Hit(task) == \/ Contains(keyword_lower, casefold(task.title))
                     \/ Contains(keyword_lower, casefold(task.description))
                     \/ /\ task.category # None
                        /\ Contains(keyword_lower, casefold(Get(task.category)))
    IN IF cleaned = <<>> THEN Raise("ValidationError")
       ELSE Ok(SelectSeq(get_all_tasks(st), Hit))

\* search_tasks: [exc, val], val the list of matching tasks
search_tasks(st, keyword) ==
    LET cleaned == strip(keyword)
        keyword_lower == casefold(cleaned)
        Hit(task) == \/ Contains(keyword_lower, casefold(ensure_task_compatibility(task).title))
                     \/ Contains(keyword_lower,
                                 casefold(ensure_task_compatibility(task).description))
    IN IF cleaned = <<>> THEN Raise("ValidationError")
       ELSE Ok(SelectSeq(get_all_tasks(st), Hit))

\* a faulty filter_tasks: a task passes when it satisfies one active dimension
filter_tasks_any(st, f) ==
    LET Pass(t) == \/ ~is_active(f)
                   \/ f.status # None /\ t.is_completed = Get(f.status)
                   \/ f.priority # None /\ t.priority = Get(f.priority)
                   \/ /\ f.category # None /\ t.category # None
                      /\ Contains(casefold(Get(f.category)), casefold(Get(t.category)))
    IN SelectSeq(get_all_tasks(st), Pass)

\* filter_tasks: the three list comprehensions, one after the other
filter_tasks(st, f) ==
    LET ByStatus(t) == t.is_completed = Get(f.status)
        ByPriority(t) == t.priority = Get(f.priority)
        ByCategory(t) == /\ t.category # None /\ Get(t.category) # <<>>
                         /\ Contains(casefold(Get(f.category)), casefold(Get(t.category)))
        all == get_all_tasks(st)
        s1 == IF f.status # None THEN SelectSeq(all, ByStatus) ELSE all
        s2 == IF f.priority # None THEN SelectSeq(s1, ByPriority) ELSE s1
    IN IF f.category # None THEN SelectSeq(s2, ByCategory) ELSE s2

\* TaskService.PRIORITY_ORDER
PRIORITY_ORDER == ("HIGH" :> 3) @@ ("MEDIUM" :> 2) @@ ("LOW" :> 1)

\* a faulty sort_by_priority: the rank is negated instead of reversing the sort
sort_by_priority_negated_rank(ts) ==
    sorted(ts, [i \in 1..Len(ts) |->
                   << <<0 - PRIORITY_ORDER[ts[i].priority]>>, ts[i].created_at >>], FALSE)

sort_by_priority(ts) ==
    sorted(ts, [i \in 1..Len(ts) |->
                   << <<PRIORITY_ORDER[ts[i].priority]>>, ts[i].created_at >>], TRUE)

sort_alphabetically(ts) ==
    sorted(ts, [i \in 1..Len(ts) |->
                   << CodePoints(casefold(ts[i].title)), ts[i].created_at >>], FALSE)

-----------------------------------------------------------------------------
(* The console interface *)

\* CLI.run: pc is the position ("menu": at the menu prompt, "add": inside
\* handle_add's loop, "exit": at the confirmation prompt of handle_exit,
\* "done": run has returned), running the loop variable, caught the except
\* clause of run that ended the loop, stdin "eof" once the input has ended
\* for good (every further read raises EOFError)
NewCli == [pc |-> "menu", running |-> TRUE, caught |-> "none", stdin |-> "open"]

\* str.lower(), on the characters the inputs are made of
lower(s) == [i \in 1..Len(s) |-> casefoldChar(s[i])]

\* get_confirmation, given the line the user types
get_confirmation(answer) == lower(strip(answer)) = <<"y">>

\* handle_exit returns False to end the loop and True to go on
handle_exit(answer) == ~get_confirmation(answer)

\* "x if x else default" on a stripped input line
OrDefault(line, default) == IF strip(line) # <<>> THEN strip(line) ELSE default

\* the arguments handle_add passes to add_task, given the lines typed
handle_add_args(lines) ==
    [title |-> strip(lines.title),
     description |-> strip(lines.description),
     priority_str |-> OrDefault(lines.priority_str, <<"m","e","d","i","u","m">>),
     category_str |-> OrDefault(lines.category_str, <<>>),
     due_date_str |-> OrDefault(lines.due_date_str, <<>>),
     recurrence_str |-> OrDefault(lines.recurrence_str, <<"n","o","n","e">>)]

\* "x if x else None" on a stripped input line
OrNone(line) == IF strip(line) # <<>> THEN Some(strip(line)) ELSE None

\* the arguments handle_update passes to update_task, given the lines typed
handle_update_args(lines) ==
    [title |-> OrNone(lines.title),
     description |-> OrNone(lines.description),
     priority_str |-> OrNone(lines.priority_str),
     category_str |-> OrNone(lines.category_str),
     due_date_str |-> OrNone(lines.due_date_str),
     recurrence_str |-> OrNone(lines.recurrence_str)]

\* the except clauses of the handlers
HandlerCatches ==
    [handle_add |-> {"ValidationError", "ValueError"},
     handle_update |-> {"ValidationError", "ValueError"},
     handle_toggle |-> {"ValidationError", "ValueError"},
     handle_search |-> {"ValidationError"},
     handle_delete |-> {}, handle_view |-> {}, handle_filter |-> {}, handle_sort |-> {},
     handle_exit |-> {}]

\* run after a handler that raised exc (or "none"): an exception the handler
\* does not catch reaches "except Exception" of run, which ends the loop
run_after(c, handler, exc) ==
    IF exc = "none" THEN [c EXCEPT !.pc = "menu"]
    ELSE IF exc \in HandlerCatches[handler]
         THEN [c EXCEPT !.pc = IF handler = "handle_add" THEN "add" ELSE "menu"]
    ELSE [c EXCEPT !.pc = "done", !.caught = "Exception"]

\* the except clauses around each read of input(): in get_menu_choice,
\* get_task_id and get_confirmation, around the keyword prompt of
\* handle_search, and none around the bare input() calls that read the fields
\* in handle_add and handle_update and the choices in handle_filter and
\* handle_sort
PromptCatches ==
    [get_menu_choice |-> {"ValueError", "KeyboardInterrupt", "EOFError"},
     get_task_id |-> {"ValueError"},
     get_confirmation |-> {"KeyboardInterrupt", "EOFError"},
     keyword |-> {"KeyboardInterrupt", "EOFError"},
     field |-> {},
     choice |-> {}]

\* the prompts of the handlers, as <<handler, prompt>>
HandlerPrompts ==
    { <<"handle_add", "field">>,
      <<"handle_update", "get_task_id">>, <<"handle_update", "field">>,
      <<"handle_delete", "get_task_id">>, <<"handle_delete", "get_confirmation">>,
      <<"handle_toggle", "get_task_id">>,
      <<"handle_search", "keyword">>,
      <<"handle_filter", "choice">>, <<"handle_sort", "choice">> }

\* run after a read at this prompt of this handler raised exc: caught at the
\* prompt or in the handler the action is over and the menu comes back;
\* otherwise "except KeyboardInterrupt" or "except Exception" of run ends
\* the loop
run_after_read(c, handler, prompt, exc) ==
    IF exc \in PromptCatches[prompt] \cup HandlerCatches[handler]
    THEN [c EXCEPT !.pc = "menu"]
    ELSE [c EXCEPT !.pc = "done",
                   !.caught = IF exc = "KeyboardInterrupt" THEN "KeyboardInterrupt"
                              ELSE "Exception"]

\* run after handle_exit: running = self.handle_exit() is not False
run_after_exit(c, answer) ==
    [c EXCEPT !.running = handle_exit(answer),
              !.pc = IF handle_exit(answer) THEN "menu" ELSE "done"]

-----------------------------------------------------------------------------
(* Inputs of the calls *)

TitleInputs ==
    { <<" ","a"," ">>, <<"B">>, <<>>, <<" "," ">>, Rep("x", TITLE_MAX), Rep("x", TITLE_MAX + 1) }

DueDateInputs ==
    { <<"2","0","2","5","-","0","1","-","3","1">>, <<" ","2","0","2","4","-","1","1","-","3","0"," ">>,
      <<"2","0","2","5","-","0","2","-","3","0">>, <<"2","0","2","5","-","1","3","-","0","1">>,
      <<"2","0","2","5","/","0","1","/","3","1">>, <<"2","0","x","5","-","0","1","-","0","1">> }

\* add_task's parameters with their default values, given a title
AddDefaults(title) ==
    [title |-> title, description |-> <<>>, priority_str |-> <<"m","e","d","i","u","m">>,
     category_str |-> <<>>, due_date_str |-> <<>>, recurrence_str |-> <<"n","o","n","e">>]

DailyAdd ==
    [title |-> <<"B">>, description |-> <<" ","d"," ">>, priority_str |-> <<"l","o","w">>,
     category_str |-> <<" ","w"," ">>, due_date_str |-> <<"2","0","2","5","-","0","1","-","3","1">>, recurrence_str |-> <<"D","a","i","l","y">>]

MonthlyAdd ==
    [title |-> <<"a">>, description |-> <<>>, priority_str |-> <<"m","e","d","i","u","m">>,
     category_str |-> <<>>, due_date_str |-> <<" ","2","0","2","4","-","1","1","-","3","0"," ">>, recurrence_str |-> <<"m","o","n","t","h","l","y">>]

WeeklyNoDueAdd == [AddDefaults(<<"a">>) EXCEPT !.recurrence_str = <<"W","e","e","k","l","y">>]

\* one argument list per validator outcome, around the defaults
AddInputs ==
    {AddDefaults(t) : t \in TitleInputs}
    \cup {[AddDefaults(<<"a">>) EXCEPT !.description = d] :
              d \in { <<" ","d"," ">>, Rep("y", DESCRIPTION_MAX + 1) }}
    \cup {[AddDefaults(<<"a">>) EXCEPT !.priority_str = q] :
              q \in { <<" ","H","I","G","H"," ">>, <<"u","r","g","e","n","t">> }}
    \cup {[AddDefaults(<<"a">>) EXCEPT !.category_str = c] :
              c \in { <<" ","w"," ">>, <<" "," ">>, Rep("z", CATEGORY_MAX + 1),
                      <<" ">> \o Rep("z", CATEGORY_MAX) \o <<" ">> }}
    \cup {[AddDefaults(<<"a">>) EXCEPT !.due_date_str = d] : d \in DueDateInputs}
    \cup {WeeklyNoDueAdd, [AddDefaults(<<"a">>) EXCEPT !.recurrence_str = <<"y","e","a","r","l","y">>]}
    \cup {DailyAdd, MonthlyAdd,
          [title |-> <<>>, description |-> <<>>, priority_str |-> <<"u","r","g","e","n","t">>,
           category_str |-> <<>>, due_date_str |-> <<"2","0","2","5","-","0","2","-","3","0">>,
           recurrence_str |-> <<"n","o","n","e">>]}

\* the argument lists of the task life cycle
CoreAddInputs ==
    {AddDefaults(<<" ","a"," ">>), AddDefaults(<<>>), DailyAdd, MonthlyAdd, WeeklyNoDueAdd}

\* update_task's parameters, all omitted (None)
UpdateDefaults ==
    [title |-> None, description |-> None, priority_str |-> None,
     category_str |-> None, due_date_str |-> None, recurrence_str |-> None]

TitleThenBadPriority ==
    [UpdateDefaults EXCEPT !.title = Some(<<" ","c"," ">>), !.priority_str = Some(<<"u","r","g","e","n","t">>)]

UpdateInputs ==
    {UpdateDefaults, TitleThenBadPriority}
    \cup {[UpdateDefaults EXCEPT !.title = Some(t)] : t \in { <<" ","c"," ">>, <<" "," ">> }}
    \cup {[UpdateDefaults EXCEPT !.description = Some(d)] :
              d \in { <<" ","d"," ">>, Rep("y", DESCRIPTION_MAX + 1) }}
    \cup {[UpdateDefaults EXCEPT !.priority_str = Some(q)] : q \in { <<" ","H","I","G","H"," ">>, <<"u","r","g","e","n","t">> }}
    \cup {[UpdateDefaults EXCEPT !.category_str = Some(c)] :
              c \in { <<" ","w"," ">>, <<>>, Rep("z", CATEGORY_MAX + 1),
                      <<" ">> \o Rep("z", CATEGORY_MAX) \o <<" ">> }}
    \cup {[UpdateDefaults EXCEPT !.due_date_str = Some(d)] :
              d \in { <<"2","0","2","5","-","0","1","-","3","1">>, <<>>, <<" "," ">>, <<"2","0","2","5","-","0","2","-","3","0">> }}
    \cup {[UpdateDefaults EXCEPT !.recurrence_str = Some(r)] : r \in { <<"D","a","i","l","y">>, <<"y","e","a","r","l","y">> }}
    \cup {[UpdateDefaults EXCEPT !.title = Some(<<" ","c"," ">>), !.description = Some(<<" ","d"," ">>),
                                 !.due_date_str = Some(<<"2","0","2","5","-","1","3","-","0","1">>)],
          [UpdateDefaults EXCEPT !.category_str = Some(<<>>), !.recurrence_str = Some(<<"y","e","a","r","l","y">>)],
          [UpdateDefaults EXCEPT !.title = Some(<<>>), !.priority_str = Some(<<" ","H","I","G","H"," ">>)],
          [title |-> Some(<<" ","c"," ">>), description |-> Some(<<>>), priority_str |-> Some(<<"l","o","w">>),
           category_str |-> Some(<<" ","w"," ">>), due_date_str |-> Some(<<" ","2","0","2","4","-","1","1","-","3","0"," ">>),
           recurrence_str |-> Some(<<"m","o","n","t","h","l","y">>)]}

CoreUpdateInputs ==
    {UpdateDefaults, TitleThenBadPriority,
     [UpdateDefaults EXCEPT !.title = Some(<<" ","c"," ">>)],
     [UpdateDefaults EXCEPT !.due_date_str = Some(<<>>)],
     [UpdateDefaults EXCEPT !.due_date_str = Some(<<"2","0","2","5","-","0","1","-","3","1">>)]}

\* the tasks of the query runs, in the order they are added
QueryAdds ==
    << [AddDefaults(<<"a">>) EXCEPT !.priority_str = <<"h","i","g","h">>, !.category_str = <<"W","x">>],
       [AddDefaults(<<"A">>) EXCEPT !.description = <<"b">>, !.priority_str = <<"l","o","w">>],
       [AddDefaults(<<"B">>) EXCEPT !.description = <<"a">>, !.priority_str = <<" ","H","I","G","H"," ">>,
                                   !.category_str = <<"w">>] >>

Keywords == { <<"a">>, <<"w">>, <<" ","B"," ">>, <<" ">> }

StatusInputs == { <<"a","l","l">>, <<" ","C","o","m","p","l","e","t","e","d"," ">>, <<"p","e","n","d","i","n","g">>, <<"d","o","n","e">> }

PriorityFilterInputs == {None, Some("HIGH"), Some("LOW")}

CategoryInputs == { <<>>, <<" ","W"," ">> }

\* the lines typed at the prompts of handle_add and handle_update
NoLines ==
    [title |-> <<>>, description |-> <<>>, priority_str |-> <<>>, category_str |-> <<>>,
     due_date_str |-> <<>>, recurrence_str |-> <<>>]

CliAddLines ==
    { [NoLines EXCEPT !.title = <<" ","a"," ">>],
      [NoLines EXCEPT !.title = <<"B">>, !.due_date_str = <<"2","0","2","5","-","0","1","-","3","1">>, !.recurrence_str = <<" ","D","a","i","l","y"," ">>],
      NoLines }

CliUpdateLines ==
    { NoLines, [NoLines EXCEPT !.title = <<" ","c"," ">>, !.priority_str = <<"u","r","g","e","n","t">>] }

\* lines typed at the due-date prompt of handle_update
DueDateLines ==
    { <<>>, <<" ">>, <<" "," ">>, <<"\t">>, <<"-">>, <<"0">>, <<"n","o","n","e">>,
      <<"c","l","e","a","r">>, <<"2","0","2","5","-","0","2","-","0","1">>,
      <<"2","0","2","5","-","0","2","-","3","0">> }

\* the answers to a y/n question
ConfirmAnswers == { <<"y">>, <<" ","Y"," ">>, <<"n">>, <<>> }

\* the ids a caller may pass: every id handed out so far and the next one
CallIds == 1..next_id

-----------------------------------------------------------------------------
(* The state machine: one action per service call *)

Storage == [tasks |-> tasks, next_id |-> next_id, issued |-> issued]

NoCall == [op |-> "none", id |-> 0, args |-> <<>>, exc |-> "none", ret |-> <<>>]

Init ==
    /\ tasks = NewStorage.tasks
    /\ next_id = NewStorage.next_id
    /\ issued = NewStorage.issued
    /\ filters = NewFilterState
    /\ cli = NewCli
    /\ clock = 0
    /\ calls = 0
    /\ result = NoCall
    /\ calc = [cur |-> [year |-> MaxYear, month |-> 1, day |-> 1], rec |-> "NONE",
               out |-> Raise("pending")]

\* the effect of a call with outcome r on the state
Effect(op, id, args, r) ==
    /\ tasks' = r.st.tasks
    /\ next_id' = r.st.next_id
    /\ issued' = r.st.issued
    /\ result' = [op |-> op, id |-> id, args |-> args, exc |-> r.exc, ret |-> r.ret]
    /\ calls' = calls + 1
    /\ UNCHANGED <<filters, cli, calc>>

\* datetime.now(): the time of the previous reading or a later one
Now == {clock, clock + 1}

AddTaskWith(inputs) ==
    \E a \in inputs, now \in Now :
        /\ clock' = now
        /\ Effect("add_task", 0, a, add_task(Storage, a, now))

UpdateTaskWith(inputs) ==
    \E id \in CallIds, a \in inputs :
        /\ Effect("update_task", id, a, update_task(Storage, id, a))
        /\ UNCHANGED clock

AddTask == calls < MaxCalls /\ AddTaskWith(CoreAddInputs)

UpdateTask == calls < MaxCalls /\ UpdateTaskWith(CoreUpdateInputs)

GetTask ==
    /\ calls < MaxCalls
    /\ \E id \in CallIds :
           Effect("get_task", id, <<>>, Returned(Storage, get_task(Storage, id)))
    /\ UNCHANGED clock

DeleteTask ==
    /\ calls < MaxCalls
    /\ \E id \in CallIds : Effect("delete_task", id, <<>>, delete_task(Storage, id))
    /\ UNCHANGED clock

\* datetime.now() is read only when a successor is built
ToggleTask ==
    /\ calls < MaxCalls
    /\ \E id \in CallIds, now \in Now :
           /\ Effect("toggle_task", id, <<>>, toggle_task(Storage, id, now))
           /\ clock' = IF Len(tasks') > Len(tasks) THEN now ELSE clock

\* the effect of a query with outcome r = [exc, val]: nothing is written
Answer(op, args, r) ==
    /\ result' = [op |-> op, id |-> 0, args |-> args, exc |-> r.exc, ret |-> r.val]
    /\ UNCHANGED <<tasks, next_id, issued, filters, cli, clock, calc>>

Reverse(s) == [i \in 1..Len(s) |-> s[Len(s) + 1 - i]]

\* the lists handed to the sorts: what filter_tasks returns, in either order
SortInputs == {filter_tasks(Storage, filters), Reverse(filter_tasks(Storage, filters))}

SearchTasksCall ==
    \E keyword \in Keywords : Answer("search_tasks", keyword, search_tasks(Storage, keyword))

FilterTasksCall == Answer("filter_tasks", <<>>, Ok(filter_tasks(Storage, filters)))

SortByPriorityCall ==
    \E ts \in SortInputs : Answer("sort_by_priority", ts, Ok(sort_by_priority(ts)))

SortAlphabeticallyCall ==
    \E ts \in SortInputs : Answer("sort_alphabetically", ts, Ok(sort_alphabetically(ts)))

SearchTasks == calls < MaxCalls /\ calls' = calls + 1 /\ SearchTasksCall

FilterTasks == calls < MaxCalls /\ calls' = calls + 1 /\ FilterTasksCall

SortByPriority == calls < MaxCalls /\ calls' = calls + 1 /\ SortByPriorityCall

SortAlphabetically == calls < MaxCalls /\ calls' = calls + 1 /\ SortAlphabeticallyCall

Next ==
    \/ AddTask \/ GetTask \/ UpdateTask \/ DeleteTask \/ ToggleTask
    \/ SearchTasks \/ FilterTasks \/ SortByPriority \/ SortAlphabetically

Spec == Init /\ [][Next]_vars

-----------------------------------------------------------------------------
(* The same calls with one argument list per validator outcome *)

AddTaskAny == calls < MaxInputCalls /\ AddTaskWith(AddInputs)

UpdateTaskAny == calls < MaxInputCalls /\ UpdateTaskWith(UpdateInputs)

InputNext == AddTaskAny \/ UpdateTaskAny

InputSpec == Init /\ [][InputNext]_vars

-----------------------------------------------------------------------------
(* The session: one action per menu choice of CLI.run *)

\* the effect of a handler: st and f are the storage and the FilterState it
\* leaves, exc the exception raised in it, c the state of run afterwards
Handled(op, id, args, st, f, exc, c) ==
    /\ tasks' = st.tasks
    /\ next_id' = st.next_id
    /\ issued' = st.issued
    /\ filters' = f
    /\ cli' = c
    /\ result' = [op |-> op, id |-> id, args |-> args, exc |-> exc, ret |-> <<>>]
    /\ calls' = calls + 1
    /\ UNCHANGED calc

\* a handler that returns to the menu without a call that writes
Shown(op, id, args) ==
    /\ Handled(op, id, args, Storage, filters, "none", run_after(cli, op, "none"))
    /\ UNCHANGED clock

has_tasks == tasks # <<>>

\* one pass of the loop of handle_add
HandleAdd ==
    /\ cli.pc \in {"menu", "add"} /\ cli.stdin = "open" /\ calls < MaxCliCalls
    /\ \E lines \in CliAddLines, now \in Now :
           LET r == add_task(Storage, handle_add_args(lines), now) IN
           /\ Handled("handle_add", 0, lines, r.st, filters, r.exc,
                      run_after(cli, "handle_add", r.exc))
           /\ clock' = now

HandleView ==
    /\ cli.pc = "menu" /\ cli.stdin = "open" /\ calls < MaxCliCalls
    /\ Shown("handle_view", 0, filter_tasks(Storage, filters))

HandleUpdate ==
    /\ cli.pc = "menu" /\ cli.stdin = "open" /\ calls < MaxCliCalls
    /\ \E id \in CallIds, lines \in CliUpdateLines :
           IF ~has_tasks \/ get_task(Storage, id) = None
           THEN Shown("handle_update", id, lines)
           ELSE LET r == update_task(Storage, id, handle_update_args(lines)) IN
                /\ Handled("handle_update", id, lines, r.st, filters, r.exc,
                           run_after(cli, "handle_update", r.exc))
                /\ UNCHANGED clock

HandleDelete ==
    /\ cli.pc = "menu" /\ cli.stdin = "open" /\ calls < MaxCliCalls
    /\ \E id \in CallIds, answer \in ConfirmAnswers :
           IF ~has_tasks \/ get_task(Storage, id) = None \/ ~get_confirmation(answer)
           THEN Shown("handle_delete", id, answer)
           ELSE LET r == delete_task(Storage, id) IN
                /\ Handled("handle_delete", id, answer, r.st, filters, r.exc,
                           run_after(cli, "handle_delete", r.exc))
                /\ UNCHANGED clock

HandleToggle ==
    /\ cli.pc = "menu" /\ cli.stdin = "open" /\ calls < MaxCliCalls
    /\ \E id \in CallIds, now \in Now :
           IF ~has_tasks
           THEN Shown("handle_toggle", id, <<>>)
           ELSE LET r == toggle_task(Storage, id, now) IN
                /\ Handled("handle_toggle", id, <<>>, r.st, filters, r.exc,
                           run_after(cli, "handle_toggle", r.exc))
                /\ clock' = IF Len(r.st.tasks) > Len(tasks) THEN now ELSE clock

\* the prompt of handle_search repeats until the keyword is not blank
HandleSearch ==
    /\ cli.pc = "menu" /\ cli.stdin = "open" /\ calls < MaxCliCalls
    /\ \E keyword \in {k \in Keywords : strip(k) # <<>>} :
           IF ~has_tasks
           THEN Shown("handle_search", 0, keyword)
           ELSE /\ Handled("handle_search", 0, keyword, Storage, filters,
                           search_tasks(Storage, strip(keyword)).exc,
                           run_after(cli, "handle_search",
                                     search_tasks(Storage, strip(keyword)).exc))
                /\ UNCHANGED clock

\* one choice in the menu of handle_filter, then back to the main menu
HandleFilter ==
    /\ cli.pc = "menu" /\ cli.stdin = "open" /\ calls < MaxCliCalls
    /\ \E f \in {set_filter_status(filters, <<"c","o","m","p","l","e","t","e","d">>),
                 set_filter_priority(filters, Some("HIGH")),
                 set_filter_category(filters, <<"w">>),
                 clear_filters(filters)} :
           /\ Handled("handle_filter", 0, f, Storage, IF has_tasks THEN f ELSE filters,
                      "none", run_after(cli, "handle_filter", "none"))
           /\ UNCHANGED clock

\* a faulty handle_sort: the stored list itself is put in the order shown
HandleSort_in_place ==
    /\ cli.pc = "menu" /\ cli.stdin = "open" /\ calls < MaxCliCalls
    /\ \E sorted_tasks \in {sort_by_priority(filter_tasks(Storage, filters)),
                            sort_alphabetically(filter_tasks(Storage, filters)),
                            get_all_tasks(Storage)} :
           /\ Handled("handle_sort", 0, sorted_tasks,
                      [Storage EXCEPT !.tasks = sorted_tasks], filters, "none",
                      run_after(cli, "handle_sort", "none"))
           /\ UNCHANGED clock

\* one choice in the menu of handle_sort, then back to the main menu
HandleSort ==
    /\ cli.pc = "menu" /\ cli.stdin = "open" /\ calls < MaxCliCalls
    /\ \E sorted_tasks \in {sort_by_priority(filter_tasks(Storage, filters)),
                            sort_alphabetically(filter_tasks(Storage, filters)),
                            get_all_tasks(Storage)} :
           Shown("handle_sort", 0, sorted_tasks)

HandleExit ==
    /\ cli.pc = "menu" /\ cli.stdin = "open" /\ calls < MaxCliCalls
    /\ \E answer \in ConfirmAnswers :
           /\ Handled("handle_exit", 0, answer, Storage, filters, "none",
                      run_after_exit(cli, answer))
           /\ UNCHANGED clock

CliNext ==
    \/ HandleAdd \/ HandleView \/ HandleUpdate \/ HandleDelete \/ HandleToggle
    \/ HandleSearch \/ HandleFilter \/ HandleSort \/ HandleExit

CliSpec == Init /\ [][CliNext]_vars

-----------------------------------------------------------------------------
(* The session with reads that fail: input() raises KeyboardInterrupt when  *)
(* the user interrupts, and EOFError at the end of the input, once (a       *)
(* terminal) or from then on (a pipe or a file that has been read up)       *)

\* what a read can raise, and whether the input has ended for good
InputEvents(c) ==
    IF c.stdin = "eof" THEN {[exc |-> "EOFError", stdin |-> "eof"]}
    ELSE {[exc |-> "KeyboardInterrupt", stdin |-> "open"],
          [exc |-> "EOFError", stdin |-> "open"],
          [exc |-> "EOFError", stdin |-> "eof"]}

\* a step that only reads input: no task and no filter is written
Prompted(op, args, exc, ret, c) ==
    /\ cli' = c
    /\ result' = [op |-> op, id |-> 0, args |-> args, exc |-> exc, ret |-> ret]
    /\ UNCHANGED <<tasks, next_id, issued, filters, clock, calls, calc>>

\* get_menu_choice returns 9 when its read fails, and run calls handle_exit
MenuCancelled ==
    /\ cli.pc = "menu"
    /\ \E e \in InputEvents(cli) :
           Prompted("get_menu_choice", <<>>, e.exc, <<9>>,
                      [cli EXCEPT !.pc = "exit", !.stdin = e.stdin])

\* the confirmation of handle_exit after a cancelled menu choice: an answer,
\* or a read that fails, which get_confirmation turns into False
ExitAnswered ==
    /\ cli.pc = "exit"
    /\ \/ /\ cli.stdin = "open"
          /\ \E answer \in ConfirmAnswers :
                 Prompted("handle_exit", answer, "none", <<>>, run_after_exit(cli, answer))
       \/ \E e \in InputEvents(cli) :
              Prompted("handle_exit", <<>>, e.exc, <<>>,
                         [run_after_read(cli, "handle_exit", "get_confirmation", e.exc)
                              EXCEPT !.stdin = e.stdin])

\* a read fails at a prompt of a handler; the prompts after the task check
\* are reached only when there are tasks, and no prompt of a handler is
\* reached from the menu once the input has ended
PromptCancelled ==
    /\ cli.pc \in {"menu", "add"}
    /\ \E hp \in HandlerPrompts, e \in InputEvents(cli) :
           /\ cli.pc = "add" => hp[1] = "handle_add"
           /\ cli.pc = "menu" => cli.stdin = "open"
           /\ hp[1] # "handle_add" => has_tasks
           /\ Prompted("cancelled", hp, e.exc, <<>>,
                         [run_after_read(cli, hp[1], hp[2], e.exc) EXCEPT !.stdin = e.stdin])

PromptNext ==
    \/ HandleAdd \/ HandleView \/ HandleUpdate \/ HandleDelete \/ HandleToggle
    \/ HandleSearch \/ HandleFilter \/ HandleSort \/ HandleExit
    \/ MenuCancelled \/ ExitAnswered \/ PromptCancelled

\* run is sequential code: once the input has ended no read blocks, so the
\* loop takes its next step whenever it has one
PromptSpec ==
    Init /\ [][PromptNext]_vars /\ WF_vars(cli.stdin = "eof" /\ PromptNext)

-----------------------------------------------------------------------------
(* The filters: tasks added in a fixed order, toggled and filtered freely *)

FilterAdd ==
    /\ Len(tasks) < MaxFilterTasks
    /\ AddTaskWith({QueryAdds[(Len(tasks) % Len(QueryAdds)) + 1]})

QueryToggle ==
    /\ UNCHANGED <<filters, cli, clock, calls, calc>>
    /\ \E id \in CallIds :
           LET r == toggle_task(Storage, id, clock) IN
           /\ tasks' = r.st.tasks
           /\ next_id' = r.st.next_id
           /\ issued' = r.st.issued
           /\ result' = [op |-> "toggle_task", id |-> id, args |-> <<>>, exc |-> r.exc,
                         ret |-> r.ret]

\* the effect of a filter setter: only the FilterState is written
Setter(op, args, f) ==
    /\ filters' = f
    /\ result' = [op |-> op, id |-> 0, args |-> args, exc |-> "none", ret |-> <<>>]
    /\ UNCHANGED <<tasks, next_id, issued, cli, clock, calc>>

SetFilterStatus ==
    /\ UNCHANGED calls
    /\ \E status \in StatusInputs :
           Setter("set_filter_status", status, set_filter_status(filters, status))

SetFilterPriority ==
    /\ UNCHANGED calls
    /\ \E priority \in PriorityFilterInputs :
           Setter("set_filter_priority", priority, set_filter_priority(filters, priority))

SetFilterCategory ==
    /\ UNCHANGED calls
    /\ \E category \in CategoryInputs :
           Setter("set_filter_category", category, set_filter_category(filters, category))

ClearFilters == UNCHANGED calls /\ Setter("clear_filters", <<>>, clear_filters(filters))

IsActive == UNCHANGED calls /\ Answer("is_active", <<>>, Ok(is_active(filters)))

QueryFilter == UNCHANGED calls /\ FilterTasksCall

FilterNext ==
    \/ FilterAdd \/ QueryToggle
    \/ SetFilterStatus \/ SetFilterPriority \/ SetFilterCategory \/ ClearFilters
    \/ IsActive \/ QueryFilter

FilterSpec == Init /\ [][FilterNext]_vars

-----------------------------------------------------------------------------
(* Search and the sorts: tasks added in a fixed order *)

QueryAdd ==
    /\ Len(tasks) < MaxQueryTasks
    /\ AddTaskWith({QueryAdds[(Len(tasks) % Len(QueryAdds)) + 1]})

QuerySearch == UNCHANGED calls /\ SearchTasksCall

QuerySortByPriority == UNCHANGED calls /\ SortByPriorityCall

QuerySortAlphabetically == UNCHANGED calls /\ SortAlphabeticallyCall

QueryNext == QueryAdd \/ QuerySearch \/ QuerySortByPriority \/ QuerySortAlphabetically

QuerySpec == Init /\ [][QueryNext]_vars

-----------------------------------------------------------------------------
(* calculate_next_due_date applied to every calendar date of three years:  *)
(* calc is [cur, rec, out], out.exc = "pending" until the call is made      *)

DateYears == (MaxYear - 2)..MaxYear

DateInputs ==
    {dt \in [year : DateYears, month : 1..12, day : 1..31] :
        dt.day <= DaysInMonth(dt.year, dt.month)}

DateInit ==
    /\ tasks = NewStorage.tasks
    /\ next_id = NewStorage.next_id
    /\ issued = NewStorage.issued
    /\ filters = NewFilterState
    /\ cli = NewCli
    /\ clock = 0
    /\ calls = 0
    /\ result = NoCall
    /\ calc \in [cur : DateInputs, rec : Recurrence, out : {Raise("pending")}]

Calc ==
    /\ calc.out.exc = "pending"
    /\ calc' = [calc EXCEPT !.out = calculate_next_due_date(calc.cur, calc.rec)]
    /\ UNCHANGED <<tasks, next_id, issued, filters, cli, clock, calls, result>>

DateNext == Calc

DateSpec == DateInit /\ [][DateNext]_vars

-----------------------------------------------------------------------------
(* Properties *)

StoredIds == {tasks[i].id : i \in 1..Len(tasks)}

\* C1: ids are handed out as 1, 2, 3, ...: every id handed out is greater
\* than every id handed out before it, whatever was deleted in between, and
\* every stored task carries an id that was handed out.
C1_IdsIncreaseNeverReused ==
    /\ \A i \in 1..Len(issued) : issued[i] = i
    /\ \A i \in 1..Len(issued), j \in 1..Len(issued) : i < j => issued[i] < issued[j]
    /\ \A i \in 1..Len(tasks) : \E j \in 1..Len(issued) : issued[j] = tasks[i].id
    /\ \A i \in 1..Len(issued) : issued[i] < next_id

\* an add_task has just stored a task after an earlier id was deleted
C1_Witness ==
    /\ result.op = "add_task" /\ result.exc = "none"
    /\ \E j \in 1..Len(issued) : issued[j] \notin StoredIds
    /\ tasks[Len(tasks)].id = issued[Len(issued)]

\* C2: the stored tasks have positive, pairwise distinct ids.
C2_IdsPositiveDistinct ==
    /\ \A i \in 1..Len(tasks) : tasks[i].id > 0
    /\ \A i \in 1..Len(tasks), j \in 1..Len(tasks) : i # j => tasks[i].id # tasks[j].id

\* two tasks are stored and one of them has just been updated
C2_Witness ==
    /\ Len(tasks) = 2
    /\ result.op = "update_task" /\ result.exc = "none" /\ result.ret # None

\* C3: toggle_task on a stored incomplete recurring task with a due date
\* stores exactly one successor (a copy with completion false and the
\* original's id as parent), completes the original and returns both; in
\* every other case it only flips the completion flag and returns no successor.
C3_ToggleStoresSuccessor ==
    [][(result'.op = "toggle_task" /\ IndexOf(tasks, result'.id) # 0) =>
        LET i == IndexOf(tasks, result'.id)
            t == tasks[i]
        IN IF ~t.is_completed /\ t.recurrence # "NONE" /\ t.due_date # None
           THEN /\ result'.exc = "none"
                /\ Len(tasks') = Len(tasks) + 1
                /\ LET n == tasks'[Len(tasks')] IN
                     /\ n.title = t.title
                     /\ n.description = t.description
                     /\ n.priority = t.priority
                     /\ n.category = t.category
                     /\ n.recurrence = t.recurrence
                     /\ n.is_completed = FALSE
                     /\ n.parent_task_id = Some(t.id)
                     /\ result'.ret = <<Some(t.id), Some(n.id)>>
                /\ \A j \in 1..Len(tasks) :
                     tasks'[j] = IF j = i THEN [t EXCEPT !.is_completed = TRUE] ELSE tasks[j]
           ELSE /\ result'.exc = "none"
                /\ tasks' = [tasks EXCEPT ![i] = [t EXCEPT !.is_completed = ~t.is_completed]]
                /\ next_id' = next_id
                /\ result'.ret = <<Some(t.id), None>>
    ]_vars

\* the day after a calendar date
NextDay(dt) ==
    IF dt.day < DaysInMonth(dt.year, dt.month) THEN [dt EXCEPT !.day = dt.day + 1]
    ELSE IF dt.month < 12 THEN [year |-> dt.year, month |-> dt.month + 1, day |-> 1]
    ELSE [year |-> dt.year + 1, month |-> 1, day |-> 1]

RECURSIVE DaysLater(_, _)
DaysLater(dt, k) == IF k = 0 THEN dt ELSE DaysLater(NextDay(dt), k - 1)

\* the same day of the following calendar month, clamped to its last day
SameDayNextMonth(dt) ==
    LET y == IF dt.month = 12 THEN dt.year + 1 ELSE dt.year
        m == IF dt.month = 12 THEN 1 ELSE dt.month + 1
    IN [year |-> y, month |-> m, day |-> Min(dt.day, DaysInMonth(y, m))]

\* C4: for MONTHLY, calculate_next_due_date returns the same day of the
\* following calendar month, clamped to the last day of that month, for a
\* due date in any month of the year.
C4_MonthlyNextMonthClamped ==
    (calc.out.exc # "pending" /\ calc.rec = "MONTHLY") =>
        calc.out = Ok(SameDayNextMonth(calc.cur))

\* C5: for DAILY, calculate_next_due_date returns the due date plus one
\* calendar day, for WEEKLY plus seven, carrying into the next month and year.
C5_DailyWeeklyAddDays ==
    /\ (calc.out.exc # "pending" /\ calc.rec = "DAILY") =>
           calc.out = Ok(NextDay(calc.cur))
    /\ (calc.out.exc # "pending" /\ calc.rec = "WEEKLY") =>
           calc.out = Ok(DaysLater(calc.cur, 7))

\* 2025-01-31 DAILY has given 2025-02-01
C5_Witness ==
    /\ calc.rec = "DAILY"
    /\ calc.cur = [year |-> 2025, month |-> 1, day |-> 31]
    /\ calc.out = Ok([year |-> 2025, month |-> 2, day |-> 1])

AllSpace(s) == \A i \in 1..Len(s) : IsSpace(s[i])

\* the member of an enumeration that a string names, case-insensitively
Names(s, values, names, member) ==
    \E k \in 1..Len(values) : values[k] = casefold(strip(s)) /\ names[k] = member

\* YYYY-MM-DD naming a calendar date
IsCalendarDate(c) ==
    /\ Len(c) = 10 /\ c[5] = "-" /\ c[8] = "-"
    /\ \A k \in {1, 2, 3, 4, 6, 7, 9, 10} : IsDigit(c[k])
    /\ LET y == DigitsValue(SubSeq(c, 1, 4), 0)
           m == DigitsValue(SubSeq(c, 6, 7), 0)
           d == DigitsValue(SubSeq(c, 9, 10), 0)
       IN y >= 1 /\ m \in 1..12 /\ d \in 1..DaysInMonth(y, m)

DateOf(c) ==
    [year |-> DigitsValue(SubSeq(c, 1, 4), 0), month |-> DigitsValue(SubSeq(c, 6, 7), 0),
     day |-> DigitsValue(SubSeq(c, 9, 10), 0)]

\* the reasons for add_task to fail
InvalidAddArgs(a) ==
    \/ AllSpace(a.title)
    \/ Len(strip(a.title)) > 100
    \/ Len(strip(a.description)) > 500
    \/ \A q \in Priority : ~Names(a.priority_str, PriorityValues, PriorityNames, q)
    \/ Len(strip(a.category_str)) > 50
    \/ (~AllSpace(a.due_date_str) /\ ~IsCalendarDate(strip(a.due_date_str)))
    \/ \A r \in Recurrence : ~Names(a.recurrence_str, RecurrenceValues, RecurrenceNames, r)

\* C6: an update_task call that fails on one of several supplied fields
\* leaves every field of the stored task as it was.
C6_FailedUpdateChangesNothing ==
    [][(result'.op = "update_task" /\ result'.exc # "none") => tasks' = tasks]_vars

\* C7: add_task fails whenever one of its validators has a reason to fail,
\* and a failed add_task leaves the task list and the id counter unchanged,
\* so that a successful add_task always gets the id the counter showed.
C7_FailedAddChangesNothing ==
    [][result'.op = "add_task" =>
        /\ InvalidAddArgs(result'.args) => result'.exc # "none"
        /\ result'.exc # "none" =>
               tasks' = tasks /\ next_id' = next_id /\ issued' = issued
        /\ result'.exc = "none" =>
               /\ Len(tasks') = Len(tasks) + 1
               /\ tasks'[Len(tasks')].id = next_id
               /\ next_id' = next_id + 1
    ]_vars

\* an add_task has failed on its due date with a task already stored
C7_Witness ==
    /\ result.op = "add_task" /\ result.exc = "ValueError"
    /\ result.args.due_date_str = <<"2","0","2","5","-","0","2","-","3","0">>
    /\ Len(tasks) = 1 /\ next_id = 2

\* C8: update_task never changes the id, the completion flag or the parent of
\* the task, nor any other task; a field passed as None keeps its value; on
\* return every supplied field holds its validated value, an empty or blank
\* due date clearing the due date.
C8_UpdateChangesSuppliedFields ==
    [][(result'.op = "update_task" /\ IndexOf(tasks, result'.id) # 0) =>
        LET i == IndexOf(tasks, result'.id)
            t == tasks[i]
            u == tasks'[i]
            a == result'.args
        IN /\ Len(tasks') = Len(tasks)
           /\ \A j \in 1..Len(tasks) : j # i => tasks'[j] = tasks[j]
           /\ u.id = t.id /\ u.is_completed = t.is_completed
           /\ u.parent_task_id = t.parent_task_id
           /\ a.title = None => u.title = t.title
           /\ a.description = None => u.description = t.description
           /\ a.priority_str = None => u.priority = t.priority
           /\ a.category_str = None => u.category = t.category
           /\ a.due_date_str = None => u.due_date = t.due_date
           /\ a.recurrence_str = None => u.recurrence = t.recurrence
           /\ result'.exc = "none" =>
                /\ a.title # None => u.title = strip(Get(a.title))
                /\ a.description # None => u.description = strip(Get(a.description))
                /\ a.priority_str # None =>
                       Names(Get(a.priority_str), PriorityValues, PriorityNames, u.priority)
                /\ a.category_str # None =>
                       u.category = IF AllSpace(Get(a.category_str)) THEN None
                                    ELSE Some(strip(Get(a.category_str)))
                /\ a.due_date_str # None =>
                       u.due_date = IF AllSpace(Get(a.due_date_str)) THEN None
                                    ELSE Some(DateOf(strip(Get(a.due_date_str))))
                /\ a.recurrence_str # None =>
                       Names(Get(a.recurrence_str), RecurrenceValues, RecurrenceNames,
                             u.recurrence)
    ]_vars

\* the due date of the task added with a due date has just been cleared
C8_Witness ==
    /\ result.op = "update_task" /\ result.exc = "none"
    /\ result.args = [UpdateDefaults EXCEPT !.due_date_str = Some(<<>>)]
    /\ Len(tasks) = 1
    /\ tasks[1].title = <<"B">> /\ tasks[1].recurrence = "DAILY" /\ tasks[1].due_date = None

\* C9: add_task with only a valid title succeeds and stores an incomplete
\* task with empty description, priority MEDIUM, no category, no due date,
\* recurrence NONE and no parent.
C9_AddWithTitleOnly ==
    [][(/\ result'.op = "add_task"
        /\ result'.args = AddDefaults(result'.args.title)
        /\ ~AllSpace(result'.args.title)
        /\ Len(strip(result'.args.title)) <= 100) =>
        /\ result'.exc = "none"
        /\ Len(tasks') = Len(tasks) + 1
        /\ LET n == tasks'[Len(tasks')] IN
             /\ n.title = strip(result'.args.title)
             /\ n.is_completed = FALSE
             /\ n.description = <<>>
             /\ n.priority = "MEDIUM"
             /\ n.category = None
             /\ n.due_date = None
             /\ n.recurrence = "NONE"
             /\ n.parent_task_id = None
    ]_vars

\* add_task(" a ") has just stored its task
C9_Witness ==
    /\ result.op = "add_task" /\ result.exc = "none"
    /\ result.args = AddDefaults(<<" ","a"," ">>)
    /\ Len(tasks) = 1 /\ tasks[1].title = <<"a">>

StorageAfter == [tasks |-> tasks', next_id |-> next_id', issued |-> issued']

\* C10: after a successful add_task, get_task with the returned id gives the
\* task with the validated values and the id the storage assigned; get_task
\* returns the stored task with the id asked for; and what get_task returns
\* for a task stays the same over every call that does not update, toggle or
\* delete that task.
C10_AddGetRoundTrip ==
    [][/\ (result'.op = "add_task" /\ result'.exc = "none") =>
            LET a == result'.args
                got == get_task(StorageAfter, Get(result'.ret))
            IN /\ Get(result'.ret) = next_id
               /\ got # None
               /\ Get(got).id = next_id
               /\ Get(got).title = strip(a.title)
               /\ Get(got).description = strip(a.description)
               /\ Names(a.priority_str, PriorityValues, PriorityNames, Get(got).priority)
               /\ Get(got).category = IF AllSpace(a.category_str) THEN None
                                      ELSE Some(strip(a.category_str))
               /\ Get(got).due_date = IF AllSpace(a.due_date_str) THEN None
                                      ELSE Some(DateOf(strip(a.due_date_str)))
               /\ Names(a.recurrence_str, RecurrenceValues, RecurrenceNames,
                        Get(got).recurrence)
       /\ result'.op = "get_task" =>
            /\ tasks' = tasks
            /\ \A i \in 1..Len(tasks) :
                   tasks[i].id = result'.id => result'.ret = Some(tasks[i])
            /\ result'.id \notin StoredIds => result'.ret = None
       /\ \A i \in 1..Len(tasks) :
            (~(result'.op \in {"update_task", "toggle_task", "delete_task"}
               /\ result'.id = tasks[i].id)) =>
                get_task(StorageAfter, tasks[i].id) = Some(tasks[i])
    ]_vars

\* get_task(1) has returned the first of two stored tasks
C10_Witness ==
    /\ result.op = "get_task" /\ result.id = 1
    /\ Len(tasks) = 2 /\ next_id = 3
    /\ result.ret = Some(tasks[1])
    /\ tasks[1].id = 1 /\ tasks[2].id = 2

IssuedIds == {issued[i] : i \in 1..Len(issued)}

\* C11: delete_task with an id that is not stored, whether never assigned or
\* already deleted, returns false without raising and leaves the task list,
\* the number of tasks and the id counter as they were; with a stored id it
\* returns true.
C11_DeleteMissingIsNoOp ==
    [][result'.op = "delete_task" =>
        /\ result'.exc = "none"
        /\ result'.ret = (result'.id \in StoredIds)
        /\ result'.id \notin StoredIds =>
               /\ tasks' = tasks
               /\ Len(tasks') = Len(tasks)
               /\ next_id' = next_id
               /\ issued' = issued
    ]_vars

\* an id that was already deleted has been deleted again
C11_Witness ==
    /\ result.op = "delete_task" /\ result.ret = FALSE
    /\ result.id \in IssuedIds /\ result.id \notin StoredIds

\* C12: update_task and toggle_task with an id that is not stored return
\* None and (None, None) without raising, whatever the arguments, store no
\* successor and leave the storage as it was.
C12_MissingIdNullResult ==
    [][(result'.op \in {"update_task", "toggle_task"} /\ result'.id \notin StoredIds) =>
        /\ result'.exc = "none"
        /\ result'.op = "update_task" => result'.ret = None
        /\ result'.op = "toggle_task" => result'.ret = <<None, None>>
        /\ tasks' = tasks /\ next_id' = next_id /\ issued' = issued
    ]_vars

\* update_task with arguments that do not validate has returned None for an
\* id that is not stored
C12_Witness ==
    /\ result.op = "update_task" /\ result.args = TitleThenBadPriority
    /\ result.id \notin StoredIds
    /\ result.exc = "none" /\ result.ret = None
    /\ Len(tasks) >= 1

Elems(s) == {s[i] : i \in 1..Len(s)}

AscendingIds(s) == \A i, j \in 1..Len(s) : i < j => s[i].id < s[j].id

\* part of whole, letter case ignored
InsideIgnoringCase(part, whole) ==
    \E i \in 1..(Len(whole) + 1), j \in 0..Len(whole) :
        casefold(SubSeq(whole, i, j)) = casefold(part)

\* task t satisfies every dimension that is set in FilterState f
PassesAll(t, f) ==
    /\ f.status # None => t.is_completed = Get(f.status)
    /\ f.priority # None => t.priority = Get(f.priority)
    /\ f.category # None =>
           (t.category # None /\ InsideIgnoringCase(Get(f.category), Get(t.category)))

\* C13: filter_tasks returns exactly the stored tasks that satisfy every
\* active filter dimension at once, in ascending id order; with no active
\* filter it returns the full task list.
C13_FilterIsConjunction ==
    [][result'.op = "filter_tasks" =>
        /\ result'.exc = "none"
        /\ Elems(Get(result'.ret)) = {t \in Elems(tasks) : PassesAll(t, filters)}
        /\ AscendingIds(Get(result'.ret))
        /\ (filters.status = None /\ filters.priority = None /\ filters.category = None)
               => Get(result'.ret) = tasks
    ]_vars

\* status and priority are both set; of two completed tasks only the HIGH one
\* is returned
C13_Witness ==
    /\ result.op = "filter_tasks"
    /\ filters.status = Some(TRUE) /\ filters.priority = Some("HIGH")
    /\ Len(tasks) = 2 /\ tasks[1].is_completed /\ tasks[2].is_completed
    /\ Get(result.ret) = <<tasks[1]>>

\* C14: search_tasks raises ValidationError for an empty or blank keyword;
\* otherwise it returns, in ascending id order, exactly the stored tasks whose
\* title or description contains the trimmed keyword, letter case ignored.
C14_SearchTitleAndDescription ==
    [][result'.op = "search_tasks" =>
        /\ AllSpace(result'.args) => result'.exc = "ValidationError"
        /\ ~AllSpace(result'.args) =>
              /\ result'.exc = "none"
              /\ Elems(Get(result'.ret)) =
                     {t \in Elems(tasks) :
                         \/ InsideIgnoringCase(strip(result'.args), t.title)
                         \/ InsideIgnoringCase(strip(result'.args), t.description)}
              /\ AscendingIds(Get(result'.ret))
    ]_vars

\* the keyword " B " has found the second task by its description and the
\* third by its title
C14_Witness ==
    /\ result.op = "search_tasks" /\ result.args = <<" ","B"," ">>
    /\ Len(tasks) = 3
    /\ Get(result.ret) = <<tasks[2], tasks[3]>>
    /\ tasks[2].description = <<"b">> /\ tasks[3].title = <<"B">>

SameTasks(r, ts) == Len(r) = Len(ts) /\ Elems(r) = Elems(ts)

FoldedTitle(t) == CodePoints(casefold(t.title))

\* C15: sort_alphabetically returns the given tasks in ascending order of
\* the case-folded title, and of two tasks with equal case-folded titles the
\* one created later comes first.
C15_AlphabeticalNewestFirst ==
    [][result'.op = "sort_alphabetically" =>
        LET r == Get(result'.ret) IN
        /\ SameTasks(r, result'.args)
        /\ \A i, j \in 1..Len(r) : i < j =>
              /\ ~SeqLess(FoldedTitle(r[j]), FoldedTitle(r[i]))
              /\ FoldedTitle(r[i]) = FoldedTitle(r[j]) => r[i].created_at >= r[j].created_at
    ]_vars

\* C16: sort_by_priority returns the given tasks with every HIGH task before
\* every MEDIUM task before every LOW task, and of two tasks of equal
\* priority the one created later comes first.
C16_PriorityNewestFirst ==
    [][result'.op = "sort_by_priority" =>
        LET r == Get(result'.ret)
            rank(t) == CASE t.priority = "HIGH" -> 3 [] t.priority = "MEDIUM" -> 2
                         [] t.priority = "LOW" -> 1
        IN /\ SameTasks(r, result'.args)
           /\ \A i, j \in 1..Len(r) : i < j =>
                 /\ rank(r[i]) >= rank(r[j])
                 /\ r[i].priority = r[j].priority => r[i].created_at >= r[j].created_at
    ]_vars

\* the third task, HIGH and created after the first, comes before the first,
\* and the LOW task comes last
C16_Witness ==
    /\ result.op = "sort_by_priority" /\ result.args = tasks
    /\ Len(tasks) = 3
    /\ tasks[3].created_at > tasks[1].created_at
    /\ Get(result.ret) = <<tasks[3], tasks[1], tasks[2]>>

\* C17: every stored task has a title that is trimmed, non-empty and at most
\* 100 characters long.
C17_TitleTrimmedNonEmpty ==
    \A i \in 1..Len(tasks) :
        /\ tasks[i].title = strip(tasks[i].title)
        /\ Len(tasks[i].title) >= 1
        /\ Len(tasks[i].title) <= 100

\* an update_task that failed on the priority has left its new title behind
C17_Witness ==
    /\ result.op = "update_task" /\ result.exc = "ValidationError"
    /\ result.args = TitleThenBadPriority
    /\ Len(tasks) = 1 /\ tasks[1].title = <<"c">>

\* C18: a stored task keeps its creation timestamp over every call; the
\* tasks search, filter and the sorts return are the stored ones; and a task
\* that a call stores gets the time read during that call.
C18_CreatedAtSetOnce ==
    [][/\ \A i \in 1..Len(tasks), j \in 1..Len(tasks') :
              tasks'[j].id = tasks[i].id => tasks'[j].created_at = tasks[i].created_at
       /\ (result'.op \in {"search_tasks", "filter_tasks", "sort_by_priority",
                           "sort_alphabetically"} /\ result'.exc = "none") =>
              (tasks' = tasks /\ Elems(Get(result'.ret)) \subseteq Elems(tasks))
       /\ \A j \in 1..Len(tasks') :
              tasks'[j].id \notin StoredIds => tasks'[j].created_at = clock'
    ]_vars

\* the first task has been toggled after the clock moved on
C18_Witness ==
    /\ result.op = "toggle_task" /\ result.exc = "none" /\ result.id = 1
    /\ Len(tasks) = 2 /\ tasks[1].id = 1 /\ tasks[1].is_completed
    /\ tasks[1].created_at < clock

\* C19: the FilterState starts with its three dimensions unset; a setter
\* writes only its own dimension; "all", an empty category and clear_filters
\* unset; no other call writes the FilterState; and is_active is true exactly
\* when a dimension is set.
C19_FilterStateDimensions ==
    /\ (filters.status = None /\ filters.priority = None /\ filters.category = None)
    /\ [][/\ result'.op = "set_filter_status" =>
               /\ filters'.priority = filters.priority
               /\ filters'.category = filters.category
               /\ filters'.status =
                      CASE casefold(strip(result'.args)) = <<"a","l","l">> -> None
                        [] casefold(strip(result'.args)) = <<"p","e","n","d","i","n","g">> -> Some(FALSE)
                        [] casefold(strip(result'.args)) = <<"c","o","m","p","l","e","t","e","d">> -> Some(TRUE)
                        [] OTHER -> filters.status
          /\ result'.op = "set_filter_priority" =>
               /\ filters'.status = filters.status
               /\ filters'.category = filters.category
               /\ filters'.priority = result'.args
          /\ result'.op = "set_filter_category" =>
               /\ filters'.status = filters.status
               /\ filters'.priority = filters.priority
               /\ filters'.category = IF AllSpace(result'.args) THEN None
                                      ELSE Some(strip(result'.args))
          /\ result'.op = "clear_filters" =>
               (filters'.status = None /\ filters'.priority = None
                /\ filters'.category = None)
          /\ result'.op \notin {"set_filter_status", "set_filter_priority",
                                "set_filter_category", "clear_filters"} =>
               filters' = filters
          /\ result'.op = "is_active" =>
               Get(result'.ret) = (\E d \in {"status", "priority", "category"} :
                                       filters[d] # None)
       ]_vars

\* "all" has unset the status and left the priority and the category set
C19_Witness ==
    /\ result.op = "set_filter_status" /\ result.args = <<"a","l","l">>
    /\ filters.status = None
    /\ filters.priority = Some("HIGH") /\ filters.category = Some(<<"W">>)

\* the user has chosen Exit and answered the confirmation with "y"
ExitConfirmed ==
    result'.op = "handle_exit" /\ result'.args \in { <<"y">>, <<"Y">>, <<" ","Y"," ">> }

\* C20: the session ends only by the choice Exit answered with "y"; Exit
\* answered otherwise returns to the menu with the tasks as they were; and
\* every other menu choice returns to the menu or, for Add Task with input
\* that does not validate, to the prompts of Add Task.
C20_SessionEndsOnlyOnConfirmedExit ==
    [][/\ cli'.pc = "done" => ExitConfirmed
       /\ (result'.op = "handle_exit" /\ ~ExitConfirmed) =>
              (cli'.pc = "menu" /\ tasks' = tasks /\ next_id' = next_id)
       /\ ExitConfirmed => cli'.pc = "done"
       /\ (result'.op # "handle_exit" /\ result'.exc = "none") => cli'.pc = "menu"
    ]_vars

\* C22: whatever add_task, update_task, delete_task and toggle_task calls
\* were made, the stored list is in strictly ascending id order, so
\* get_all_tasks, which sorts by id, returns the list in insertion order.
C22_InsertionOrderIsIdOrder ==
    /\ AscendingIds(tasks)
    /\ get_all(tasks) = tasks
    /\ get_all_tasks(Storage) = get_all(tasks)

C22_Witness ==
    /\ Len(tasks) = 2 /\ tasks[1].is_completed /\ ~tasks[2].is_completed
    /\ tasks[1].id = 1 /\ tasks[2].id = 2
    /\ get_all_tasks(Storage) = <<tasks[1], tasks[2]>>

\* C23: delete_task with the id of a stored task returns true and removes
\* exactly that task: the other tasks keep their fields and their relative
\* position, the number of tasks drops by one, the id counter stays, and
\* get_task with that id then finds nothing.
C23_DeleteRemovesExactlyThatTask ==
    [][(result'.op = "delete_task" /\ result'.id \in StoredIds) =>
          LET Others(t) == t.id # result'.id IN
          /\ result'.exc = "none" /\ result'.ret = TRUE
          /\ tasks' = SelectSeq(tasks, Others)
          /\ Len(tasks') = Len(tasks) - 1
          /\ next_id' = next_id
          /\ get_task(StorageAfter, result'.id) = None]_vars

C23_Witness ==
    /\ result.op = "delete_task" /\ result.id = 1 /\ result.ret = TRUE
    /\ Len(tasks) = 1 /\ tasks[1].id = 2 /\ next_id = 3

\* C24: in add_task and in update_task of a stored task, a category that is
\* empty after trimming is accepted and leaves the task without a category
\* (clearing the one it had); a category of 1 to 50 characters after trimming
\* is stored trimmed; one of more than 50 characters makes the call fail with
\* a validation error.
C24_CategoryNormalised ==
    [][LET r == result'
           supplied == /\ r.op \in {"add_task", "update_task"}
                       /\ r.op = "update_task" =>
                              (r.id \in StoredIds /\ r.args.category_str # None)
           c == IF r.op = "add_task" THEN r.args.category_str ELSE Get(r.args.category_str)
           cleaned == strip(c)
           expected == IF cleaned = <<>> THEN None ELSE Some(cleaned)
           stored == IF r.op = "add_task" THEN tasks'[Len(tasks')]
                     ELSE tasks'[IndexOf(tasks', r.id)]
       IN supplied =>
             /\ validate_category(c) = IF Len(cleaned) > 50 THEN Raise("ValidationError")
                                       ELSE Ok(expected)
             /\ Len(cleaned) > 50 => r.exc = "ValidationError"
             /\ (Len(cleaned) <= 50 /\ r.exc = "none") => stored.category = expected]_vars

\* update_task with category_str '' has cleared the category ' w ' had set
C24_Witness ==
    /\ result.op = "update_task" /\ result.exc = "none"
    /\ result.args = [UpdateDefaults EXCEPT !.category_str = Some(<<>>)]
    /\ Len(tasks) = 1 /\ tasks[1].title = <<"B">> /\ tasks[1].description = <<"d">>
    /\ tasks[1].category = None

\* C27: toggle_task is all-or-nothing: a call that raises has flipped no
\* flag and stored no successor, and leaves the task list and the id counter
\* exactly as they were; a call on a stored task that returns has flipped the
\* flag, and no call stores a successor without completing the original.
C27_ToggleAllOrNothing ==
    [][result'.op = "toggle_task" =>
          LET i == IndexOf(tasks, result'.id) IN
          /\ result'.exc # "none" =>
                 (tasks' = tasks /\ next_id' = next_id /\ issued' = issued)
          /\ (result'.exc = "none" /\ i # 0) =>
                 tasks'[i] = [tasks[i] EXCEPT !.is_completed = ~tasks[i].is_completed]
          /\ Len(tasks') > Len(tasks) =>
                 (i # 0 /\ ~tasks[i].is_completed /\ tasks'[i].is_completed)]_vars

\* the toggle of a recurring task with a due date has failed
C27_Witness ==
    /\ result.op = "toggle_task" /\ result.exc = "NameError" /\ result.id = 1
    /\ Len(tasks) = 1 /\ next_id = 2 /\ issued = <<1>>
    /\ ~tasks[1].is_completed /\ tasks[1].recurrence = "DAILY" /\ tasks[1].due_date # None

\* the number of stored tasks in ts whose parent is the task with this id
SuccessorsOf(ts, task_id) ==
    Cardinality({j \in 1..Len(ts) : ts[j].parent_task_id = Some(task_id)})

\* C28: successors are not deduplicated: every toggle_task that takes a
\* stored recurring task with a due date from incomplete to complete stores
\* one more task whose parent_task_id is that task, however many it has.
C28_EveryCompletionStoresSuccessor ==
    [][(result'.op = "toggle_task" /\ IndexOf(tasks, result'.id) # 0) =>
          LET t == tasks[IndexOf(tasks, result'.id)] IN
          (~t.is_completed /\ t.recurrence # "NONE" /\ t.due_date # None) =>
              SuccessorsOf(tasks', t.id) = SuccessorsOf(tasks, t.id) + 1]_vars

\* C29: the number of stored tasks rises by one with a successful add_task
\* and with a toggle_task that completes a recurring task with a due date,
\* drops by one with a delete_task of a stored id, and is left unchanged by
\* every other call; it equals the ids handed out minus the tasks deleted.
C29_TaskCountChanges ==
    [][LET r == result'
           i == IndexOf(tasks, r.id)
           delta == IF r.op = "add_task" /\ r.exc = "none" THEN 1
                    ELSE IF r.op = "delete_task" /\ i # 0 THEN 0 - 1
                    ELSE IF /\ r.op = "toggle_task" /\ i # 0
                            /\ ~tasks[i].is_completed
                            /\ tasks[i].recurrence # "NONE" /\ tasks[i].due_date # None
                         THEN 1
                    ELSE 0
       IN /\ Len(tasks') = Len(tasks) + delta
          /\ Len(tasks') = Len(issued') - Cardinality(IssuedIds' \ StoredIds')]_vars

\* the calls that only read the tasks, and the handlers that make only such calls
ReadOnlyOps ==
    {"search_tasks", "filter_tasks", "sort_by_priority", "sort_alphabetically",
     "get_all_tasks", "get_task", "is_active",
     "set_filter_status", "set_filter_priority", "set_filter_category", "clear_filters",
     "handle_view", "handle_search", "handle_sort", "handle_filter"}

\* the calls that write tasks, and the handlers that make them
WritingOps ==
    {"add_task", "update_task", "delete_task", "toggle_task",
     "handle_add", "handle_update", "handle_delete", "handle_toggle"}

\* C30: the queries (search_tasks, filter_tasks, the two sorts, get_all_tasks,
\* get_task) and the filter setters, and the handlers that call only them,
\* leave the stored tasks, their order and the id counter as they were;
\* add_task, update_task, delete_task and toggle_task, and the handlers that
\* call them, leave the FilterState as it was.
C30_QueriesReadOnlyStatesIndependent ==
    [][/\ result'.op \in ReadOnlyOps =>
              (tasks' = tasks /\ next_id' = next_id /\ issued' = issued)
       /\ (result'.op \in {"handle_update", "handle_delete"}
              /\ get_task(Storage, result'.id) = None) =>
              (tasks' = tasks /\ next_id' = next_id /\ issued' = issued)
       /\ result'.op \in WritingOps => filters' = filters]_vars

\* handle_sort has shown two stored tasks in another order than the stored one
C30_Witness ==
    /\ result.op = "handle_sort" /\ Len(tasks) = 2
    /\ SameTasks(result.args, tasks) /\ result.args # tasks
    /\ AscendingIds(tasks)

\* what handle_update does to the stored task with this id when only the
\* due-date prompt is answered, with this line
UpdateWithDueDateLine(task_id, line) ==
    update_task(Storage, task_id, handle_update_args([NoLines EXCEPT !.due_date_str = line]))

\* C26: whenever a stored task has a due date, the due-date prompt of the
\* Update handler has an answer that keeps the due date and an answer that
\* clears it: one for which update_task gets the empty string as
\* due_date_str and the task ends up without a due date.
C26_UpdatePromptKeepsAndClears ==
    \A i \in 1..Len(tasks) :
        tasks[i].due_date # None =>
            /\ \E line \in DueDateLines :
                   LET r == UpdateWithDueDateLine(tasks[i].id, line) IN
                   r.exc = "none" /\ r.st.tasks[i].due_date = tasks[i].due_date
            /\ \E line \in DueDateLines :
                   LET a == handle_update_args([NoLines EXCEPT !.due_date_str = line])
                       r == UpdateWithDueDateLine(tasks[i].id, line)
                   IN /\ a.due_date_str # None /\ strip(Get(a.due_date_str)) = <<>>
                      /\ r.exc = "none" /\ r.st.tasks[i].due_date = None

\* the prompts the claim names: menu choice, task id, field input,
\* confirmation and search keyword
InterruptedAtPrompt(r) ==
    /\ r.exc = "KeyboardInterrupt"
    /\ \/ r.op \in {"get_menu_choice", "handle_exit"}
       \/ /\ r.op = "cancelled"
          /\ r.args[2] \in {"get_task_id", "field", "get_confirmation", "keyword"}

\* C21: an interrupt while a prompt is being read (menu choice, task id,
\* field input, confirmation, search keyword) cancels the current action
\* only: the loop of run goes on and the stored tasks are as they were.
C21_InterruptCancelsOnlyTheAction ==
    [][InterruptedAtPrompt(result') =>
          /\ cli'.pc # "done" /\ cli'.running /\ cli'.caught = "none"
          /\ tasks' = tasks /\ next_id' = next_id]_vars

\* C25: once the input has ended for good, run ends: a menu choice that
\* cannot be read is routed to Exit, and the loop does not go round menu and
\* exit confirmation for ever.
C25_ExhaustedInputEndsSession == (cli.stdin = "eof") ~> (cli.pc = "done")

====
